---- MODULE Spec2Model ----
(***************************************************************************)
(* Model of the single-node Kafka-style log (main.go): the two tables      *)
(* `uncommitted` and `committed`, each guarded by a sync.RWMutex, and the   *)
(* four handlers send, poll, commit_offsets and list_committed_offsets run  *)
(* concurrently by the maelstrom node, one goroutine per request.           *)
(***************************************************************************)
EXTENDS Integers, Sequences, FiniteSets, TLC

\* ------------------------------------------------------------------ bounds
\* Number of requests the node receives in one run.
MaxRequests == 3
\* The same, in the runs where every request is about the one log "k1".
MaxOneKeyRequests == 4
MaxLockRequests == 3

\* Concurrent handler goroutines.
Procs == {1, 2}
\* Log keys and message payloads clients use.
Keys == {"k1", "k2"}
Msgs == {5, 9}
\* Offsets clients name in poll and commit_offsets requests.
ReqOffsets == {0, 1}

\* ------------------------------------------------------------------ message types
SendType == "send"
PollType == "poll"
CommitOffsetsType == "commit_offsets"
ListCommittedOffsetsType == "list_committed_offsets"

\* ------------------------------------------------------------------ state
VARIABLES
    uncommitted,  \* logs: [mutex, offsets, msgs], the Uncommitted Table
    committed,    \* logs: [mutex, offsets, msgs], the Committed Table
    pc,           \* position of each handler goroutine
    body,         \* the decoded request body of each handler
    offset,       \* send handler's local `offset`
    msgs,         \* poll handler's local `msgs` (the poll_ok payload)
    offsets,      \* list_committed_offsets handler's local `offsets`
    err,          \* whether the handler's node.Reply returned an error
    pending,      \* commit_offsets: keys of body.Offsets the range loop has not visited
    held,         \* commit_offsets: uncommitted.msgs as it was when both locks were taken
    assigned,     \* per key, the offsets send calls stored under, in critical-section order
    acked,        \* <<key, offset, msg>> of every send whose send_ok was sent
    commits,      \* per key, the record of the commit_offsets calls naming it
    requests      \* number of requests received so far

vars == <<uncommitted, committed, pc, body, offset, msgs, offsets, err, pending,
          held, assigned, acked, commits, requests>>

\* ------------------------------------------------------------------ Go maps
\* m[k] = v on a Go map: the key is created when missing.
Put(m, k, v) == [x \in (DOMAIN m) \cup {k} |-> IF x = k THEN v ELSE m[x]]

EmptyMap == [x \in {} |-> 0]

\* All maps from a subset of D to R (the request maps a client can send).
Maps(D, R) == UNION {[S -> R] : S \in SUBSET D}

\* ------------------------------------------------------------------ sync.RWMutex
\* w: the goroutine that called Lock (it holds the lock once r is empty), 0 if none;
\* r: the goroutines holding a read lock.
NewMutex == [w |-> 0, r |-> {}]

\* Lock, first half: take the writer slot, which turns new readers away.
CanLock(mu) == mu.w = 0
\* Lock, second half: wait until the readers that were inside have left.
Drained(mu) == mu.r = {}
\* RLock blocks while a writer holds or waits for the lock.
CanRLock(mu) == mu.w = 0

\* The decoded request bodies (SendBody, PollBody, CommitOffsetsBody,
\* ListCommittedOffsetsBody), as one record; a field a type lacks stays empty.
NoBody == [type |-> "", key |-> "", msg |-> 0, offsets |-> EmptyMap, keys |-> <<>>]
SendBody(key, msg) == [NoBody EXCEPT !.type = SendType, !.key = key, !.msg = msg]
PollBody(offs) == [NoBody EXCEPT !.type = PollType, !.offsets = offs]
CommitOffsetsBody(offs) == [NoBody EXCEPT !.type = CommitOffsetsType, !.offsets = offs]
ListCommittedOffsetsBody(keys) ==
    [NoBody EXCEPT !.type = ListCommittedOffsetsType, !.keys = keys]

\* The key lists a client sends: no key, one key, or both in either order.
KeyLists == {<<>>} \cup {<<k>> : k \in Keys}
            \cup {ks \in Keys \X Keys : ks[1] # ks[2]}

Bodies ==
    {SendBody(k, m) : k \in Keys, m \in Msgs}
    \cup {PollBody(o) : o \in Maps(Keys, ReqOffsets)}
    \cup {CommitOffsetsBody(o) : o \in Maps(Keys, ReqOffsets)}
    \cup {ListCommittedOffsetsBody(ks) : ks \in KeyLists}

\* No commit_offsets call has named the key yet.
NoCommit == [calls |-> 0, offset |-> 0, prev |-> 0, stored |-> FALSE]

NewLogs == [mutex |-> NewMutex, offsets |-> EmptyMap, msgs |-> EmptyMap]

Init ==
    /\ uncommitted = NewLogs
    /\ committed = NewLogs
    /\ pc = [p \in Procs |-> "idle"]
    /\ body = [p \in Procs |-> NoBody]
    /\ offset = [p \in Procs |-> 0]
    /\ msgs = [p \in Procs |-> EmptyMap]
    /\ offsets = [p \in Procs |-> EmptyMap]
    /\ err = [p \in Procs |-> FALSE]
    /\ pending = [p \in Procs |-> {}]
    /\ held = [p \in Procs |-> EmptyMap]
    /\ assigned = [k \in Keys |-> <<>>]
    /\ acked = {}
    /\ commits = [k \in Keys |-> NoCommit]
    /\ requests = 0

\* ------------------------------------------------------------------ dispatch
\* node.Run hands each decoded request to its handler in a goroutine of its own.
FirstStep(type) ==
    CASE type = SendType -> "send_lock"
      [] type = PollType -> "poll_rlock"
      [] type = CommitOffsetsType -> "commit_rlock"
      [] type = ListCommittedOffsetsType -> "list_rlock"

HandleFrom(p, bodies, max) ==
    /\ pc[p] = "idle"
    /\ requests < max
    /\ \E b \in bodies :
        /\ body' = [body EXCEPT ![p] = b]
        /\ pc' = [pc EXCEPT ![p] = FirstStep(b.type)]
    /\ requests' = requests + 1
    /\ UNCHANGED <<uncommitted, committed, offset, msgs, offsets, err, pending, held,
                   assigned, acked, commits>>

Handle(p) == HandleFrom(p, Bodies, MaxRequests)

\* The requests of clients that use the one log "k1".
OneKeyBodies ==
    {b \in Bodies : b.key \in {"", "k1"} /\ DOMAIN b.offsets \subseteq {"k1"}
                    /\ \A i \in DOMAIN b.keys : b.keys[i] = "k1"}

HandleOneKey(p) == HandleFrom(p, OneKeyBodies, MaxOneKeyRequests)

\* The handler returned: its goroutine and its locals are gone.
Return(p) ==
    /\ pc' = [pc EXCEPT ![p] = "idle"]
    /\ body' = [body EXCEPT ![p] = NoBody]
    /\ offset' = [offset EXCEPT ![p] = 0]
    /\ msgs' = [msgs EXCEPT ![p] = EmptyMap]
    /\ offsets' = [offsets EXCEPT ![p] = EmptyMap]
    /\ err' = [err EXCEPT ![p] = FALSE]
    /\ pending' = [pending EXCEPT ![p] = {}]
    /\ held' = [held EXCEPT ![p] = EmptyMap]

\* ------------------------------------------------------------------ send
\* uncommitted.mutex.Lock(): the writer slot is taken first ...
SendLock(p) ==
    /\ pc[p] = "send_lock"
    /\ CanLock(uncommitted.mutex)
    /\ uncommitted' = [uncommitted EXCEPT !.mutex.w = p]
    /\ pc' = [pc EXCEPT ![p] = "send_wait"]
    /\ UNCHANGED <<committed, body, offset, msgs, offsets, err, pending, held,
                   assigned, acked, commits, requests>>

\* The counter a send reads: created at 0 when the key is new.
CurrentOffset(u, key) == IF key \in DOMAIN u.offsets THEN u.offsets[key] ELSE 0

\* Lines 180-190: create the key's maps when missing, store msg at the counter.
StoreMsg(u, key, msg) ==
    LET keyMsgs == IF key \in DOMAIN u.msgs THEN u.msgs[key] ELSE EmptyMap
        off == CurrentOffset(u, key)
    IN  [u EXCEPT !.msgs = Put(u.msgs, key, Put(keyMsgs, off, msg)),
                  !.offsets = Put(u.offsets, key, off)]

\* ... and the lock is held once the readers have drained; then lines 180-190.
SendStore(p) ==
    /\ pc[p] = "send_wait"
    /\ Drained(uncommitted.mutex)
    /\ offset' = [offset EXCEPT ![p] = CurrentOffset(uncommitted, body[p].key)]
    /\ uncommitted' = StoreMsg(uncommitted, body[p].key, body[p].msg)
    /\ assigned' = [assigned EXCEPT ![body[p].key] =
                        Append(@, CurrentOffset(uncommitted, body[p].key))]
    /\ pc' = [pc EXCEPT ![p] = "send_reply"]
    /\ UNCHANGED <<committed, body, msgs, offsets, err, pending, held, acked, commits,
                   requests>>

\* The error return without the deferred Unlock: the handler returns with the
\* mutex still locked.
SendReplyLeaks(p) ==
    /\ pc[p] = "send_reply"
    /\ \E ok \in BOOLEAN :
        IF ok
        THEN /\ err' = [err EXCEPT ![p] = FALSE]
             /\ acked' = acked \cup {<<body[p].key, offset[p], body[p].msg>>}
             /\ pc' = [pc EXCEPT ![p] = "send_incr"]
             /\ UNCHANGED <<body, offset, msgs, offsets, pending, held>>
        ELSE /\ acked' = acked
             /\ Return(p)
    /\ UNCHANGED <<uncommitted, committed, assigned, commits, requests>>

\* node.Reply(msg, SendOkBody{offset}) under the lock: it succeeds or returns an
\* error, and on an error the handler returns before the counter is advanced.
SendReply(p) ==
    /\ pc[p] = "send_reply"
    /\ \E ok \in BOOLEAN :
        /\ err' = [err EXCEPT ![p] = ~ok]
        /\ IF ok
           THEN /\ acked' = acked \cup {<<body[p].key, offset[p], body[p].msg>>}
                /\ pc' = [pc EXCEPT ![p] = "send_incr"]
           ELSE /\ acked' = acked
                /\ pc' = [pc EXCEPT ![p] = "send_unlock"]
    /\ UNCHANGED <<uncommitted, committed, body, offset, msgs, offsets, pending,
                   held, assigned, commits, requests>>

\* The counter advanced by two: every other offset is left without a message.
NextOffsetTwice(off) == off + 2

\* The increment left out: the counter is written back as it was read.
NextOffsetSkipped(off) == off

\* offset++
NextOffset(off) == off + 1

\* Lines 201-203.
SendIncr(p) ==
    /\ pc[p] = "send_incr"
    /\ offset' = [offset EXCEPT ![p] = NextOffset(offset[p])]
    /\ uncommitted' = [uncommitted EXCEPT
                          !.offsets = Put(@, body[p].key, NextOffset(offset[p]))]
    /\ pc' = [pc EXCEPT ![p] = "send_unlock"]
    /\ UNCHANGED <<committed, body, msgs, offsets, err, pending, held, assigned, acked,
                   commits, requests>>

\* The deferred uncommitted.mutex.Unlock(), on both return paths.
SendUnlock(p) ==
    /\ pc[p] = "send_unlock"
    /\ uncommitted' = [uncommitted EXCEPT !.mutex.w = 0]
    /\ Return(p)
    /\ UNCHANGED <<committed, assigned, acked, commits, requests>>

Send(p) == SendLock(p) \/ SendStore(p) \/ SendReply(p) \/ SendIncr(p) \/ SendUnlock(p)

\* ------------------------------------------------------------------ poll
\* sort.Ints over the offsets collected from the map's (unordered) range.
RECURSIVE SortInts(_)
SortInts(S) ==
    IF S = {} THEN <<>>
    ELSE LET lo == CHOOSE x \in S : \A y \in S : x <= y
         IN  <<lo>> \o SortInts(S \ {lo})

\* The filter written with > instead of >=: the entry at the start is left out.
PollKeyAfter(keyMsgs, requestedOffset) ==
    LET sorted == SortInts({o \in DOMAIN keyMsgs : o > requestedOffset})
    IN  [i \in 1..Len(sorted) |-> <<sorted[i], keyMsgs[sorted[i]]>>]

\* Lines 227-241 for one key: the pairs [offset, msg] with offset >= requestedOffset,
\* ascending.
PollKey(keyMsgs, requestedOffset) ==
    LET sorted == SortInts({o \in DOMAIN keyMsgs : o >= requestedOffset})
    IN  [i \in 1..Len(sorted) |-> <<sorted[i], keyMsgs[sorted[i]]>>]

\* Lines 220-242: msgs[key] comes to exist only by an append to it.
PollMsgs(u, reqOffsets) ==
    LET found == {key \in DOMAIN reqOffsets :
                     /\ key \in DOMAIN u.msgs
                     /\ PollKey(u.msgs[key], reqOffsets[key]) # <<>>}
    IN  [key \in found |-> PollKey(u.msgs[key], reqOffsets[key])]

\* uncommitted.mutex.RLock()
PollRLock(p) ==
    /\ pc[p] = "poll_rlock"
    /\ CanRLock(uncommitted.mutex)
    /\ uncommitted' = [uncommitted EXCEPT !.mutex.r = @ \cup {p}]
    /\ pc' = [pc EXCEPT ![p] = "poll_range"]
    /\ UNCHANGED <<committed, body, offset, msgs, offsets, err, pending, held,
                   assigned, acked, commits, requests>>

\* The read lock released as soon as the scan is over, before the reply.
PollRangeThenRUnlock(p) ==
    /\ pc[p] = "poll_range"
    /\ msgs' = [msgs EXCEPT ![p] = PollMsgs(uncommitted, body[p].offsets)]
    /\ uncommitted' = [uncommitted EXCEPT !.mutex.r = @ \ {p}]
    /\ pc' = [pc EXCEPT ![p] = "poll_reply"]
    /\ UNCHANGED <<committed, body, offset, offsets, err, pending, held,
                   assigned, acked, commits, requests>>

\* The range loop over body.Offsets, under the read lock.
PollRange(p) ==
    /\ pc[p] = "poll_range"
    /\ msgs' = [msgs EXCEPT ![p] = PollMsgs(uncommitted, body[p].offsets)]
    /\ pc' = [pc EXCEPT ![p] = "poll_reply"]
    /\ UNCHANGED <<uncommitted, committed, body, offset, offsets, err, pending, held,
                   assigned, acked, commits, requests>>

\* return node.Reply(msg, PollOkBody{msgs}): sent or not, the handler returns.
PollReply(p) ==
    /\ pc[p] = "poll_reply"
    /\ \E ok \in BOOLEAN : err' = [err EXCEPT ![p] = ~ok]
    /\ pc' = [pc EXCEPT ![p] = "poll_runlock"]
    /\ UNCHANGED <<uncommitted, committed, body, offset, msgs, offsets, pending,
                   held, assigned, acked, commits, requests>>

\* The deferred uncommitted.mutex.RUnlock().
PollRUnlock(p) ==
    /\ pc[p] = "poll_runlock"
    /\ uncommitted' = [uncommitted EXCEPT !.mutex.r = @ \ {p}]
    /\ Return(p)
    /\ UNCHANGED <<committed, assigned, acked, commits, requests>>

Poll(p) == PollRLock(p) \/ PollRange(p) \/ PollReply(p) \/ PollRUnlock(p)

\* ------------------------------------------------------------------ commit_offsets
\* The marker set to the highest offset copied instead of the requested one.
CommitKeyMarksCopied(c, u, key, requestedOffset) ==
    IF key \notin DOMAIN u.msgs THEN c
    ELSE LET copied == {o \in DOMAIN u.msgs[key] : o <= requestedOffset}
             old == IF key \in DOMAIN c.msgs THEN c.msgs[key] ELSE EmptyMap
             new == [o \in (DOMAIN old) \cup copied |->
                        IF o \in copied THEN u.msgs[key][o] ELSE old[o]]
             top == CHOOSE o \in copied : \A x \in copied : x <= o
         IN  IF copied = {} THEN c
             ELSE [c EXCEPT !.msgs = Put(@, key, new),
                            !.offsets = Put(@, key, top)]

\* The marker kept as a maximum: a lower offset does not move it back.
CommitKeyKeepsHighest(c, u, key, requestedOffset) ==
    IF key \notin DOMAIN u.msgs THEN c
    ELSE LET copied == {o \in DOMAIN u.msgs[key] : o <= requestedOffset}
             old == IF key \in DOMAIN c.msgs THEN c.msgs[key] ELSE EmptyMap
             new == [o \in (DOMAIN old) \cup copied |->
                        IF o \in copied THEN u.msgs[key][o] ELSE old[o]]
             was == IF key \in DOMAIN c.offsets THEN c.offsets[key] ELSE requestedOffset
         IN  [c EXCEPT !.msgs = IF copied = {} THEN @ ELSE Put(@, key, new),
                       !.offsets = Put(@, key, IF was > requestedOffset THEN was
                                               ELSE requestedOffset)]

\* The marker written with += instead of =.
CommitKeyAddsMarker(c, u, key, requestedOffset) ==
    IF key \notin DOMAIN u.msgs THEN c
    ELSE LET copied == {o \in DOMAIN u.msgs[key] : o <= requestedOffset}
             old == IF key \in DOMAIN c.msgs THEN c.msgs[key] ELSE EmptyMap
             new == [o \in (DOMAIN old) \cup copied |->
                        IF o \in copied THEN u.msgs[key][o] ELSE old[o]]
             was == IF key \in DOMAIN c.offsets THEN c.offsets[key] ELSE 0
         IN  [c EXCEPT !.msgs = IF copied = {} THEN @ ELSE Put(@, key, new),
                       !.offsets = Put(@, key, was + requestedOffset)]

\* The committed log of the key rebuilt from the entries copied by this call.
CommitKeyReplaces(c, u, key, requestedOffset) ==
    IF key \notin DOMAIN u.msgs THEN c
    ELSE LET copied == {o \in DOMAIN u.msgs[key] : o <= requestedOffset}
             new == [o \in copied |-> u.msgs[key][o]]
         IN  [c EXCEPT !.msgs = IF copied = {} THEN @ ELSE Put(@, key, new),
                       !.offsets = Put(@, key, requestedOffset)]

\* Lines 264-283, one iteration of the range loop over body.Offsets: a key with no
\* uncommitted messages is skipped (no marker either); otherwise every uncommitted
\* entry at or below requestedOffset is copied and the marker is overwritten.
CommitKey(c, u, key, requestedOffset) ==
    IF key \notin DOMAIN u.msgs THEN c
    ELSE LET copied == {o \in DOMAIN u.msgs[key] : o <= requestedOffset}
             old == IF key \in DOMAIN c.msgs THEN c.msgs[key] ELSE EmptyMap
             new == [o \in (DOMAIN old) \cup copied |->
                        IF o \in copied THEN u.msgs[key][o] ELSE old[o]]
         IN  [c EXCEPT !.msgs = IF copied = {} THEN @ ELSE Put(@, key, new),
                       !.offsets = Put(@, key, requestedOffset)]

\* The handler without its uncommitted.mutex.RLock(): only committed is locked.
CommitNoRLock(p) ==
    /\ pc[p] = "commit_rlock"
    /\ pc' = [pc EXCEPT ![p] = "commit_lock"]
    /\ UNCHANGED <<uncommitted, committed, body, offset, msgs, offsets, err, pending,
                   held, assigned, acked, commits, requests>>

\* uncommitted.mutex.RLock()
CommitRLock(p) ==
    /\ pc[p] = "commit_rlock"
    /\ CanRLock(uncommitted.mutex)
    /\ uncommitted' = [uncommitted EXCEPT !.mutex.r = @ \cup {p}]
    /\ pc' = [pc EXCEPT ![p] = "commit_lock"]
    /\ UNCHANGED <<committed, body, offset, msgs, offsets, err, pending, held,
                   assigned, acked, commits, requests>>

\* committed.mutex.Lock(): the writer slot is taken first ...
CommitLock(p) ==
    /\ pc[p] = "commit_lock"
    /\ CanLock(committed.mutex)
    /\ committed' = [committed EXCEPT !.mutex.w = p]
    /\ pc' = [pc EXCEPT ![p] = "commit_wait"]
    /\ UNCHANGED <<uncommitted, body, offset, msgs, offsets, err, pending, held,
                   assigned, acked, commits, requests>>

\* ... and the lock is held once the readers have drained: the range loop starts.
CommitLocked(p) ==
    /\ pc[p] = "commit_wait"
    /\ Drained(committed.mutex)
    /\ pending' = [pending EXCEPT ![p] = DOMAIN body[p].offsets]
    /\ held' = [held EXCEPT ![p] = uncommitted.msgs]
    /\ pc' = [pc EXCEPT ![p] = "commit_range"]
    /\ UNCHANGED <<uncommitted, committed, body, offset, msgs, offsets, err,
                   assigned, acked, commits, requests>>

\* A commit_offsets call names the key: its offset becomes `offset`, the one before
\* `prev`; `stored` tells whether the key had uncommitted messages then.
Named(log, requestedOffset, stored) ==
    [calls |-> IF log.calls < 2 THEN log.calls + 1 ELSE 2,
     offset |-> requestedOffset,
     prev |-> log.offset,
     stored |-> stored]

\* The entries of a key above an offset (what is left once those at or below it
\* are taken out).
Above(keyMsgs, requestedOffset) ==
    [o \in {x \in DOMAIN keyMsgs : x > requestedOffset} |-> keyMsgs[o]]

\* The loop moving the messages: each copied entry is deleted from uncommitted.
CommitRangeMoves(p) ==
    /\ pc[p] = "commit_range"
    /\ \/ /\ pending[p] # {}
          /\ \E key \in pending[p] :
              /\ committed' = CommitKey(committed, uncommitted, key,
                                        body[p].offsets[key])
              /\ uncommitted' =
                    IF key \in DOMAIN uncommitted.msgs
                    THEN [uncommitted EXCEPT
                             !.msgs[key] = Above(@, body[p].offsets[key])]
                    ELSE uncommitted
              /\ commits' = [commits EXCEPT ![key] =
                                Named(@, body[p].offsets[key],
                                      key \in DOMAIN uncommitted.msgs)]
              /\ pending' = [pending EXCEPT ![p] = @ \ {key}]
          /\ pc' = pc
       \/ /\ pending[p] = {}
          /\ pc' = [pc EXCEPT ![p] = "commit_reply"]
          /\ UNCHANGED <<uncommitted, committed, commits, pending>>
    /\ UNCHANGED <<body, offset, msgs, offsets, err, held, assigned, acked, requests>>

\* The range loop over body.Offsets, in the map's (unspecified) order.
CommitRange(p) ==
    /\ pc[p] = "commit_range"
    /\ \/ /\ pending[p] # {}
          /\ \E key \in pending[p] :
              /\ committed' = CommitKey(committed, uncommitted, key,
                                        body[p].offsets[key])
              /\ commits' = [commits EXCEPT ![key] =
                                Named(@, body[p].offsets[key],
                                      key \in DOMAIN uncommitted.msgs)]
              /\ pending' = [pending EXCEPT ![p] = @ \ {key}]
          /\ pc' = pc
       \/ /\ pending[p] = {}
          /\ pc' = [pc EXCEPT ![p] = "commit_reply"]
          /\ UNCHANGED <<committed, commits, pending>>
    /\ UNCHANGED <<uncommitted, body, offset, msgs, offsets, err, held, assigned, acked,
                   requests>>

\* return node.Reply(msg, CommitOffsetsOkBody{}): sent or not, the handler returns.
CommitReply(p) ==
    /\ pc[p] = "commit_reply"
    /\ \E ok \in BOOLEAN : err' = [err EXCEPT ![p] = ~ok]
    /\ pc' = [pc EXCEPT ![p] = "commit_unlock"]
    /\ UNCHANGED <<uncommitted, committed, body, offset, msgs, offsets, pending,
                   held, assigned, acked, commits, requests>>

\* The deferred calls run last-in first-out: committed.mutex.Unlock() ...
CommitUnlock(p) ==
    /\ pc[p] = "commit_unlock"
    /\ committed' = [committed EXCEPT !.mutex.w = 0]
    /\ pc' = [pc EXCEPT ![p] = "commit_runlock"]
    /\ UNCHANGED <<uncommitted, body, offset, msgs, offsets, err, pending, held,
                   assigned, acked, commits, requests>>

\* ... then uncommitted.mutex.RUnlock().
CommitRUnlock(p) ==
    /\ pc[p] = "commit_runlock"
    /\ uncommitted' = [uncommitted EXCEPT !.mutex.r = @ \ {p}]
    /\ Return(p)
    /\ UNCHANGED <<committed, assigned, acked, commits, requests>>

CommitOffsets(p) ==
    \/ CommitRLock(p) \/ CommitLock(p) \/ CommitLocked(p) \/ CommitRange(p)
    \/ CommitReply(p) \/ CommitUnlock(p) \/ CommitRUnlock(p)

\* ------------------------------------------------------------------ list_committed_offsets
\* The lookup without its ok test: a missing key reads as Go's zero value.
RECURSIVE ListOffsetsZero(_, _)
ListOffsetsZero(c, keys) ==
    IF keys = <<>> THEN EmptyMap
    ELSE LET rest == ListOffsetsZero(c, SubSeq(keys, 1, Len(keys) - 1))
             key == keys[Len(keys)]
         IN  Put(rest, key, IF key \in DOMAIN c.offsets THEN c.offsets[key] ELSE 0)

\* Lines 303-307: a key with no recorded marker gets no entry.
RECURSIVE ListOffsets(_, _)
ListOffsets(c, keys) ==
    IF keys = <<>> THEN EmptyMap
    ELSE LET rest == ListOffsets(c, SubSeq(keys, 1, Len(keys) - 1))
             key == keys[Len(keys)]
         IN  IF key \in DOMAIN c.offsets THEN Put(rest, key, c.offsets[key]) ELSE rest

\* The handler going on, with committed's read lock in hand, to read the
\* Uncommitted Table under uncommitted.mutex.RLock(): the locks in the other order.
ListRLockThenUncommitted(p) ==
    /\ pc[p] = "list_rlock"
    /\ CanRLock(committed.mutex)
    /\ committed' = [committed EXCEPT !.mutex.r = @ \cup {p}]
    /\ pc' = [pc EXCEPT ![p] = "poll_rlock"]
    /\ UNCHANGED <<uncommitted, body, offset, msgs, offsets, err, pending, held,
                   assigned, acked, commits, requests>>

\* committed.mutex.RLock()
ListRLock(p) ==
    /\ pc[p] = "list_rlock"
    /\ CanRLock(committed.mutex)
    /\ committed' = [committed EXCEPT !.mutex.r = @ \cup {p}]
    /\ pc' = [pc EXCEPT ![p] = "list_range"]
    /\ UNCHANGED <<uncommitted, body, offset, msgs, offsets, err, pending, held,
                   assigned, acked, commits, requests>>

\* The range loop over body.Keys, under the read lock.
ListRange(p) ==
    /\ pc[p] = "list_range"
    /\ offsets' = [offsets EXCEPT ![p] = ListOffsets(committed, body[p].keys)]
    /\ pc' = [pc EXCEPT ![p] = "list_reply"]
    /\ UNCHANGED <<uncommitted, committed, body, offset, msgs, err, pending, held,
                   assigned, acked, commits, requests>>

\* return node.Reply(msg, ListCommittedOffsetsOkBody{offsets}).
ListReply(p) ==
    /\ pc[p] = "list_reply"
    /\ \E ok \in BOOLEAN : err' = [err EXCEPT ![p] = ~ok]
    /\ pc' = [pc EXCEPT ![p] = "list_runlock"]
    /\ UNCHANGED <<uncommitted, committed, body, offset, msgs, offsets, pending,
                   held, assigned, acked, commits, requests>>

\* The deferred committed.mutex.RUnlock().
ListRUnlock(p) ==
    /\ pc[p] = "list_runlock"
    /\ committed' = [committed EXCEPT !.mutex.r = @ \ {p}]
    /\ Return(p)
    /\ UNCHANGED <<uncommitted, assigned, acked, commits, requests>>

ListCommittedOffsets(p) ==
    ListRLock(p) \/ ListRange(p) \/ ListReply(p) \/ ListRUnlock(p)

\* ------------------------------------------------------------------ specification
Next ==
    \E p \in Procs :
        Handle(p) \/ Send(p) \/ Poll(p) \/ CommitOffsets(p) \/ ListCommittedOffsets(p)

Spec == Init /\ [][Next]_vars

\* The same node serving clients that use the one log "k1".
NextOneKey ==
    \E p \in Procs :
        \/ HandleOneKey(p) \/ Send(p) \/ Poll(p) \/ CommitOffsets(p)
        \/ ListCommittedOffsets(p)

SpecOneKey == Init /\ [][NextOneKey]_vars

\* The node serving one client that sends the end-to-end scenario, each request
\* after the reply (or the failure) of the one before.
Scenario ==
    << SendBody("k1", 9),
       SendBody("k1", 5),
       PollBody(Put(EmptyMap, "k1", 0)),
       CommitOffsetsBody(Put(EmptyMap, "k1", 0)),
       ListCommittedOffsetsBody(<<"k1">>),
       PollBody(Put(EmptyMap, "k1", 1)) >>

HandleScenario(p) ==
    /\ \A q \in Procs : pc[q] = "idle"
    /\ requests < Len(Scenario)
    /\ HandleFrom(p, {Scenario[requests + 1]}, Len(Scenario))

NextScenario ==
    \E p \in Procs :
        \/ HandleScenario(p) \/ Send(p) \/ Poll(p) \/ CommitOffsets(p)
        \/ ListCommittedOffsets(p)

SpecScenario == Init /\ [][NextScenario]_vars

\* The node with three handler goroutines at once, each serving one of the four
\* request types on the log "k1": enough for a send, a commit_offsets and a
\* list_committed_offsets (or poll) to contend for the two mutexes together.
Goroutines == Procs \cup {3}

LockBodies ==
    {SendBody("k1", 5), PollBody(Put(EmptyMap, "k1", 0)),
     CommitOffsetsBody(Put(EmptyMap, "k1", 0)), ListCommittedOffsetsBody(<<"k1">>)}

InitLocks ==
    /\ uncommitted = NewLogs
    /\ committed = NewLogs
    /\ pc = [p \in Goroutines |-> "idle"]
    /\ body = [p \in Goroutines |-> NoBody]
    /\ offset = [p \in Goroutines |-> 0]
    /\ msgs = [p \in Goroutines |-> EmptyMap]
    /\ offsets = [p \in Goroutines |-> EmptyMap]
    /\ err = [p \in Goroutines |-> FALSE]
    /\ pending = [p \in Goroutines |-> {}]
    /\ held = [p \in Goroutines |-> EmptyMap]
    /\ assigned = [k \in Keys |-> <<>>]
    /\ acked = {}
    /\ commits = [k \in Keys |-> NoCommit]
    /\ requests = 0

HandleLocks(p) == HandleFrom(p, LockBodies, MaxLockRequests)

\* A step of the handler goroutine p, whichever request it serves.
Step(p) == Send(p) \/ Poll(p) \/ CommitOffsets(p) \/ ListCommittedOffsets(p)

NextLocks == \E p \in Goroutines : HandleLocks(p) \/ Step(p)

SpecLocks == InitLocks /\ [][NextLocks]_vars

\* The Go scheduler runs every runnable goroutine, and a goroutine blocked in Lock
\* or RLock is woken when the mutex is released.
SpecLocksFair == SpecLocks /\ \A p \in Goroutines : WF_vars(Step(p))

\* ------------------------------------------------------------------ claims
Range(f) == {f[x] : x \in DOMAIN f}

Last(seq) == seq[Len(seq)]

\* The entries [offset, msg] a table holds for a key.
Entries(t, key) ==
    IF key \in DOMAIN t.msgs
    THEN {<<o, t.msgs[key][o]>> : o \in DOMAIN t.msgs[key]}
    ELSE {}

\* C1: for every key, the offsets the send calls stored their messages under (and
\* reported in send_ok), in the order the calls entered the critical section, are
\* 0, 1, 2, ...: no offset is assigned twice and none is skipped, whether or not
\* the replies could be sent.
C1_OffsetsDense ==
    \A k \in Keys : \A i \in 1..Len(assigned[k]) : assigned[k][i] = i - 1

\* C2: a send acknowledged with <<key, offset, msg>> is returned by every poll that
\* takes the read lock afterwards and asks for the key from a start at or below
\* the offset (acked only grows, and a poll holds the read lock until it has
\* replied, so no send is acknowledged between its scan and its reply).
C2_NoLostWrites ==
    \A p \in Procs :
        pc[p] \in {"poll_reply", "poll_runlock"} =>
            \A a \in acked :
                (a[1] \in DOMAIN body[p].offsets /\ body[p].offsets[a[1]] <= a[2]) =>
                    /\ a[1] \in DOMAIN msgs[p]
                    /\ <<a[2], a[3]>> \in Range(msgs[p][a[1]])

\* A poll returns the second acknowledged message of a key, after a later request.
C2_Witness ==
    \E p \in Procs : \E a \in acked :
        /\ pc[p] = "poll_reply"
        /\ a[2] = 1
        /\ a[1] \in DOMAIN msgs[p]
        /\ <<a[2], a[3]>> \in Range(msgs[p][a[1]])

\* C3: poll returns, for each requested key, exactly the stored entries at or
\* after the requested start, in strictly ascending offset order; a requested key
\* with no such entry (or unknown to the table) has no entry in the result, and
\* no key that was not requested has one.
C3_PollExact ==
    \A p \in Procs :
        pc[p] = "poll_reply" =>
            \A k \in Keys :
                LET want == IF k \in DOMAIN body[p].offsets
                            THEN {e \in Entries(uncommitted, k) :
                                     e[1] >= body[p].offsets[k]}
                            ELSE {}
                IN  IF want = {}
                    THEN k \notin DOMAIN msgs[p]
                    ELSE /\ k \in DOMAIN msgs[p]
                         /\ Range(msgs[p][k]) = want
                         /\ \A i \in 1..(Len(msgs[p][k]) - 1) :
                               msgs[p][k][i][1] < msgs[p][k][i + 1][1]

\* A poll of both keys returns two entries of one key, leaves out an earlier entry
\* of it, and has no entry for the other key.
C3_Witness ==
    \E p \in Procs :
        /\ pc[p] = "poll_reply"
        /\ DOMAIN body[p].offsets = Keys
        /\ DOMAIN msgs[p] = {"k1"}
        /\ Len(msgs[p]["k1"]) = 1
        /\ Cardinality(Entries(uncommitted, "k1")) = 2

\* C10: every send, before it releases the lock, has added one new entry for its
\* key and advanced the key's counter by one, whether or not its reply was sent.
C10_AppendTakesFullEffect ==
    \A p \in Procs :
        pc[p] = "send_unlock" =>
            LET k == body[p].key
            IN  /\ uncommitted.offsets[k] = Last(assigned[k]) + 1
                /\ Cardinality(DOMAIN uncommitted.msgs[k]) = Len(assigned[k])

\* C4 as claimed: once a commit_offsets naming key k with offset o has been
\* acknowledged, list_committed_offsets of k returns {k: o} (here: as it would
\* answer right then, before any other commit_offsets can run), whether or not
\* anything was appended to k; so a key with no recorded marker was not named by
\* an acknowledged commit_offsets.
C4_MarkerVisibleAnyKey ==
    \A p \in Procs :
        (pc[p] = "commit_unlock" /\ ~err[p]) =>
            \A k \in DOMAIN body[p].offsets :
                /\ k \in DOMAIN committed.offsets
                /\ ListOffsets(committed, <<k>>) = Put(EmptyMap, k, body[p].offsets[k])

\* C4, amended: the same for the keys that had uncommitted messages when the
\* commit_offsets ran: from its acknowledgement on, and until a later
\* commit_offsets names k, every list_committed_offsets of k returns {k: o}; a key
\* with no recorded marker was never named by a commit_offsets while it had
\* uncommitted messages (keys never leave the Uncommitted Table, so the latest
\* call tells for all).
C4_MarkerVisible ==
    /\ \A p \in Procs :
        (pc[p] = "commit_unlock" /\ ~err[p]) =>
            \A k \in (DOMAIN body[p].offsets) \cap (DOMAIN uncommitted.msgs) :
                ListOffsets(committed, <<k>>) = Put(EmptyMap, k, body[p].offsets[k])
    /\ \A p \in Procs :
        pc[p] = "list_reply" =>
            \A k \in Range(body[p].keys) :
                (commits[k].calls > 0 /\ commits[k].stored) =>
                    /\ k \in DOMAIN offsets[p]
                    /\ offsets[p][k] = commits[k].offset
    /\ \A k \in Keys :
        k \notin DOMAIN committed.offsets => ~(commits[k].calls > 0 /\ commits[k].stored)

\* A list_committed_offsets returns the offset of a commit_offsets that named an
\* offset beyond the key's only message.
C4_Witness ==
    \E p \in Procs : \E k \in Range(body[p].keys) :
        /\ pc[p] = "list_reply"
        /\ commits[k].calls > 0 /\ commits[k].stored
        /\ commits[k].offset = 1
        /\ DOMAIN uncommitted.msgs[k] = {0}
        /\ offsets[p][k] = 1

\* C5: from the moment a commit_offsets holds both locks until it releases them
\* the uncommitted messages stay as they were (no send takes effect in between),
\* and once its loop is done the Committed Table holds, for each key it named,
\* every entry the Uncommitted Table held at or below the named offset, with the
\* same message.
C5_CommitIsOneUnit ==
    \A p \in Procs :
        /\ pc[p] \in {"commit_range", "commit_reply", "commit_unlock"} =>
              uncommitted.msgs = held[p]
        /\ pc[p] \in {"commit_reply", "commit_unlock"} =>
              \A k \in (DOMAIN body[p].offsets) \cap (DOMAIN held[p]) :
                  \A o \in DOMAIN held[p][k] :
                      o <= body[p].offsets[k] =>
                          /\ k \in DOMAIN committed.msgs
                          /\ o \in DOMAIN committed.msgs[k]
                          /\ committed.msgs[k][o] = held[p][k][o]

\* A commit_offsets has copied an entry while a send waits for the lock it holds.
C5_Witness ==
    \E p \in Procs : \E q \in Procs \ {p} :
        /\ pc[p] = "commit_reply"
        /\ pc[q] = "send_wait"
        /\ body[q].key \in DOMAIN body[p].offsets
        /\ body[q].key \in DOMAIN committed.msgs

\* C6: in every reachable state, for every key and offset, running the commit of
\* {k: o} a second time right after the first leaves the Committed Table (copied
\* messages and markers) as the first left it.
C6_CommitIdempotent ==
    \A k \in Keys : \A o \in ReqOffsets :
        LET once == CommitKey(committed, uncommitted, k, o)
            twice == CommitKey(once, uncommitted, k, o)
        IN  /\ twice.msgs = once.msgs
            /\ twice.offsets = once.offsets

\* A commit_offsets has just run for the second time in a row with the same
\* offset on a key whose message it copied, and the marker is that offset.
C6_Witness ==
    \E p \in Procs : \E k \in DOMAIN body[p].offsets :
        /\ pc[p] = "commit_reply"
        /\ commits[k].calls = 2
        /\ commits[k].prev = body[p].offsets[k]
        /\ commits[k].offset = 1
        /\ k \in DOMAIN committed.msgs
        /\ committed.offsets[k] = 1

\* C7: list_committed_offsets returns an entry for exactly the requested keys that
\* have a recorded marker, with that marker; a requested key that no
\* commit_offsets ever named has no entry (the handler has no error return of its
\* own: its only error is the reply's).
C7_UnknownKeyOmitted ==
    \A p \in Procs :
        pc[p] = "list_reply" =>
            /\ DOMAIN offsets[p] = Range(body[p].keys) \cap DOMAIN committed.offsets
            /\ \A k \in DOMAIN offsets[p] : offsets[p][k] = committed.offsets[k]
            /\ \A k \in Range(body[p].keys) :
                  commits[k].calls = 0 => k \notin DOMAIN offsets[p]

\* A list_committed_offsets of both keys returns the marker of the one that was
\* committed and nothing for the other.
C7_Witness ==
    \E p \in Procs :
        /\ pc[p] = "list_reply"
        /\ Range(body[p].keys) = Keys
        /\ commits["k2"].calls = 0
        /\ DOMAIN offsets[p] = {"k1"}

\* C8: every entry of the Committed Table for a key is an entry of the Uncommitted
\* Table for that key with the same message, and its offset is at or below the
\* key's recorded last-committed-offset.
C8_CommittedSubset ==
    \A k \in DOMAIN committed.msgs :
        /\ Entries(committed, k) \subseteq Entries(uncommitted, k)
        /\ k \in DOMAIN committed.offsets
        /\ \A o \in DOMAIN committed.msgs[k] : o <= committed.offsets[k]

\* C9 as claimed: when a commit_offsets naming key k with a lower offset follows
\* one naming k with a higher offset, the marker of k is the lower offset and
\* list_committed_offsets of k returns it, for any key.
C9_MarkerOverwrittenAnyKey ==
    \A k \in Keys :
        (commits[k].calls = 2 /\ commits[k].offset < commits[k].prev) =>
            /\ k \in DOMAIN committed.offsets
            /\ committed.offsets[k] = commits[k].offset
            /\ \A p \in Procs :
                  (pc[p] = "list_reply" /\ k \in Range(body[p].keys)) =>
                      (k \in DOMAIN offsets[p] /\ offsets[p][k] = commits[k].offset)

\* C9, amended: the same for a key that has uncommitted messages when the second
\* commit_offsets runs.
C9_MarkerOverwritten ==
    \A k \in Keys :
        (commits[k].calls = 2 /\ commits[k].offset < commits[k].prev
            /\ commits[k].stored) =>
            /\ k \in DOMAIN committed.offsets
            /\ committed.offsets[k] = commits[k].offset
            /\ \A p \in Procs :
                  (pc[p] = "list_reply" /\ k \in Range(body[p].keys)) =>
                      (k \in DOMAIN offsets[p] /\ offsets[p][k] = commits[k].offset)

\* A list_committed_offsets returns offset 0 for a key committed at 1 and then at 0.
C9_Witness ==
    \E p \in Procs : \E k \in Range(body[p].keys) :
        /\ pc[p] = "list_reply"
        /\ commits[k].calls = 2 /\ commits[k].stored
        /\ commits[k].prev = 1 /\ commits[k].offset = 0
        /\ offsets[p][k] = 0

\* C11: no step of a commit_offsets or list_committed_offsets handler changes the
\* Uncommitted Table (messages and next-offset counters of every key), so every
\* poll request is answered after the step as it was before it.
C11_PollUnaffectedByCommit ==
    [][(\E p \in Procs : CommitOffsets(p) \/ ListCommittedOffsets(p)) =>
          /\ uncommitted'.msgs = uncommitted.msgs
          /\ uncommitted'.offsets = uncommitted.offsets
          /\ \A req \in Maps(Keys, ReqOffsets) :
                PollMsgs(uncommitted', req) = PollMsgs(uncommitted, req)]_vars

\* A commit_offsets has copied a message of a key that a poll of the same request
\* map returns.
C11_Witness ==
    \E p \in Procs : \E k \in DOMAIN body[p].offsets :
        /\ pc[p] = "commit_reply"
        /\ k \in DOMAIN committed.msgs
        /\ k \in DOMAIN PollMsgs(uncommitted, body[p].offsets)

\* Both sends of the scenario were acknowledged.
BothSent == acked = {<<"k1", 0, 9>>, <<"k1", 1, 5>>}

\* C12: in the scenario run from the empty store, the first send reports offset 0
\* and the second, after the first was acknowledged, offset 1; with both
\* acknowledged the poll from 0 returns {k1: [[0,9],[1,5]]}, the commit of {k1: 0}
\* reaches its reply, list_committed_offsets returns {k1: 0} and the poll from 1
\* returns {k1: [[1,5]]}.
C12_Scenario ==
    \A p \in Procs :
        /\ (requests = 1 /\ pc[p] = "send_reply") => offset[p] = 0
        /\ (requests = 2 /\ pc[p] = "send_reply" /\ <<"k1", 0, 9>> \in acked) =>
              offset[p] = 1
        /\ (requests = 3 /\ pc[p] = "poll_reply" /\ BothSent) =>
              msgs[p] = Put(EmptyMap, "k1", <<<<0, 9>>, <<1, 5>>>>)
        /\ (requests = 4 /\ pc[p] = "commit_reply" /\ BothSent) =>
              /\ committed.msgs = Put(EmptyMap, "k1", Put(EmptyMap, 0, 9))
              /\ committed.offsets = Put(EmptyMap, "k1", 0)
        /\ (requests = 5 /\ pc[p] = "list_reply" /\ BothSent) =>
              offsets[p] = Put(EmptyMap, "k1", 0)
        /\ (requests = 6 /\ pc[p] = "poll_reply" /\ BothSent) =>
              msgs[p] = Put(EmptyMap, "k1", <<<<1, 5>>>>)

\* The last poll of the scenario replies {k1: [[1,5]]} after both sends were
\* acknowledged and offset 0 was committed.
C12_Witness ==
    \E p \in Procs :
        /\ requests = 6 /\ pc[p] = "poll_reply" /\ BothSent
        /\ committed.offsets = Put(EmptyMap, "k1", 0)
        /\ msgs[p] = Put(EmptyMap, "k1", <<<<1, 5>>>>)

\* The (key, offset) positions a table holds a message at.
Positions(t) == UNION {{<<k, o>> : o \in DOMAIN t.msgs[k]} : k \in DOMAIN t.msgs}

\* C13: no step removes a key, a next-offset counter or a (key, offset) position
\* from the Uncommitted Table, nor a key, a (key, offset) position or a
\* last-committed-offset marker from the Committed Table.
C13_TablesOnlyGrow ==
    [][/\ DOMAIN uncommitted.msgs \subseteq DOMAIN uncommitted'.msgs
       /\ DOMAIN uncommitted.offsets \subseteq DOMAIN uncommitted'.offsets
       /\ Positions(uncommitted) \subseteq Positions(uncommitted')
       /\ DOMAIN committed.msgs \subseteq DOMAIN committed'.msgs
       /\ DOMAIN committed.offsets \subseteq DOMAIN committed'.offsets
       /\ Positions(committed) \subseteq Positions(committed')]_vars

\* A commit_offsets at offset 0 has run after one at offset 1, and the Committed
\* Table still holds both positions of the key.
C13_Witness ==
    \E p \in Procs : \E k \in DOMAIN body[p].offsets :
        /\ pc[p] = "commit_reply"
        /\ commits[k].calls = 2 /\ commits[k].prev = 1 /\ commits[k].offset = 0
        /\ {<<k, 0>>, <<k, 1>>} \subseteq Positions(committed)
        /\ {<<k, 0>>, <<k, 1>>} \subseteq Positions(uncommitted)

\* C14: in the result a poll replies for a key k requested from offset s, below
\* every returned offset o each offset from max(s, 0) up to o - 1 is returned too.
C14_NoGapsSeen ==
    \A p \in Procs :
        pc[p] = "poll_reply" =>
            \A k \in DOMAIN msgs[p] :
                LET s == body[p].offsets[k]
                    seen == {msgs[p][k][i][1] : i \in DOMAIN msgs[p][k]}
                IN  \A o \in seen :
                        (IF s > 0 THEN s ELSE 0) .. (o - 1) \subseteq seen

\* A poll from offset 0 replies with offsets 0 and 1 of a key.
C14_Witness ==
    \E p \in Procs : \E k \in DOMAIN msgs[p] :
        /\ pc[p] = "poll_reply"
        /\ body[p].offsets[k] = 0
        /\ {msgs[p][k][i][1] : i \in DOMAIN msgs[p][k]} = {0, 1}

\* The positions where a handler waits for a mutex: before Lock or RLock returns.
Waiting ==
    {"send_lock", "send_wait", "poll_rlock", "commit_rlock", "commit_lock",
     "commit_wait", "list_rlock"}

\* The positions where the mutex waited for is the Uncommitted Table's.
WaitingUncommitted == {"send_lock", "send_wait", "poll_rlock", "commit_rlock"}

\* C15: a handler that holds (or has queued for) the Committed Table's lock is never
\* waiting for the Uncommitted Table's, and whoever has the Committed Table's write
\* slot already holds the Uncommitted Table's read lock (uncommitted is locked
\* first); and whenever some handler waits for a lock, some handler can step.
C15_LockOrderNoDeadlock ==
    /\ \A p \in Goroutines :
          /\ (committed.mutex.w = p \/ p \in committed.mutex.r) =>
                pc[p] \notin WaitingUncommitted
          /\ committed.mutex.w = p => p \in uncommitted.mutex.r
    /\ (\E p \in Goroutines : pc[p] \in Waiting) =>
          ENABLED (\E p \in Goroutines : Step(p))

\* Three handlers contend: a commit_offsets holds uncommitted's read lock and waits
\* for committed's readers to drain, a list_committed_offsets holds committed's read
\* lock, and a send waits for uncommitted's readers to drain.
C15_Witness ==
    \E p, q, r \in Goroutines :
        /\ pc[p] = "commit_wait" /\ p \in uncommitted.mutex.r
        /\ pc[q] \in {"list_range", "list_reply", "list_runlock"}
        /\ q \in committed.mutex.r
        /\ pc[r] = "send_wait" /\ uncommitted.mutex.w = r

\* The handler goroutine p holds neither mutex, as writer or as reader.
HoldsNoLock(p) ==
    /\ uncommitted.mutex.w # p /\ p \notin uncommitted.mutex.r
    /\ committed.mutex.w # p /\ p \notin committed.mutex.r

\* C16: under fair scheduling of the handler goroutines, every invoked send, poll,
\* commit_offsets and list_committed_offsets handler eventually returns, and holds
\* no lock once it has returned, whether its reply succeeded or failed.
C16_EveryOperationCompletes ==
    \A p \in Goroutines : (pc[p] # "idle") ~> (pc[p] = "idle" /\ HoldsNoLock(p))

\* A send whose reply failed is about to run its deferred Unlock while another
\* handler waits for the same mutex.
C16_Witness ==
    \E p, q \in Goroutines :
        /\ pc[p] = "send_unlock" /\ err[p] /\ uncommitted.mutex.w = p
        /\ pc[q] \in {"send_lock", "poll_rlock", "commit_rlock"}

\* C17: whenever no send handler holds uncommitted's write lock, the offsets that
\* hold a message for a key of the Uncommitted Table are exactly 0 .. next - 1,
\* next being the key's next-offset counter.
C17_CounterLogAgreement ==
    (\A p \in Procs : pc[p] \notin {"send_reply", "send_incr", "send_unlock"}) =>
        \A k \in DOMAIN uncommitted.msgs :
            DOMAIN uncommitted.msgs[k] = 0 .. (CurrentOffset(uncommitted, k) - 1)

\* The positions where a handler is inside node.Reply.
Replying == {"send_reply", "poll_reply", "commit_reply", "list_reply"}

C19_StoredMessagesImmutable ==
    [][\A k \in DOMAIN uncommitted.msgs : \A o \in DOMAIN uncommitted.msgs[k] :
          /\ k \in DOMAIN uncommitted'.msgs
          /\ o \in DOMAIN uncommitted'.msgs[k]
          /\ uncommitted'.msgs[k][o] = uncommitted.msgs[k][o]]_vars

====
